---- MODULE Spec2Model ----
(***************************************************************************)
(* Workday REST wrapper: the Flask handlers of app.py, the recursive       *)
(* dictionary helpers they use, and the SOAP client wrapper of              *)
(* soap_client.py.  The Workday endpoint, zeep and the JWT library are the  *)
(* environment: their outcomes are chosen nondeterministically.            *)
(***************************************************************************)
EXTENDS Integers, Sequences, FiniteSets, TLC

\* ------------------------------------------------------------ bounds
MaxDepth == 2
MaxWidth == 2

\* ------------------------------------------------------------ Python values
\* A value is a record [kind, val, kids].  kind is "null", "str", "bool",
\* "dict", "list" or "jwt"; val is the text of a scalar; kids is the sequence
\* of entries [k, v] of a dict (in insertion order), of a list (k = <<>>)
\* or of the identity claim of a token.
\* A text (a key, a scalar's val, an exception message) is a sequence of
\* pieces whose concatenation is the Python string: "@lang" is
\* <<"@", "lang">>, "" is <<>>.
Node(kind, val, kids) == [kind |-> kind, val |-> val, kids |-> kids]
Entry(k, v) == [k |-> k, v |-> v]
None == Node("null", <<>>, <<>>)
Text(pieces) == Node("str", pieces, <<>>)
Str(s) == Text(IF s = "" THEN <<>> ELSE <<s>>)
Bool(b) == Node("bool", <<b>>, <<>>)
Dict(entries) == Node("dict", <<>>, entries)
List(items) == Node("list", <<>>, [i \in 1..Len(items) |-> Entry(<<>>, items[i])])
EmptyDict == Dict(<<>>)
EmptyList == List(<<>>)
Key(s) == <<s>>

HasKey(d, k) == \E i \in 1..Len(d.kids) : d.kids[i].k = k
IndexOf(entries, k) == CHOOSE i \in 1..Len(entries) : entries[i].k = k

\* dict.get(key, default)
Get(d, k, default) ==
    IF HasKey(d, k) THEN d.kids[IndexOf(d.kids, k)].v ELSE default

\* new_dict[key] = value: an existing key keeps its position
DictSet(entries, k, v) ==
    IF \E i \in 1..Len(entries) : entries[i].k = k
    THEN [entries EXCEPT ![IndexOf(entries, k)] = Entry(k, v)]
    ELSE Append(entries, Entry(k, v))

\* Python truthiness of a value
Truthy(n) ==
    CASE n.kind = "null" -> FALSE
      [] n.kind = "str" -> n.val # <<>>
      [] n.kind = "bool" -> n.val = <<"true">>
      [] OTHER -> n.kids # <<>>

\* Python == on values: dicts compare without regard to insertion order
RECURSIVE PyEq(_, _)
PyEq(a, b) ==
    /\ a.kind = b.kind
    /\ a.val = b.val
    /\ Len(a.kids) = Len(b.kids)
    /\ IF a.kind = "dict"
       THEN \A i \in 1..Len(a.kids) :
              \E j \in 1..Len(b.kids) :
                 a.kids[i].k = b.kids[j].k /\ PyEq(a.kids[i].v, b.kids[j].v)
       ELSE \A i \in 1..Len(a.kids) :
              a.kids[i].k = b.kids[i].k /\ PyEq(a.kids[i].v, b.kids[i].v)

\* ------------------------------------------------------------ app.py helpers
\* key.startswith('@')
StartsWithAt(key) == Len(key) > 0 /\ Head(key) = "@"

TextKey == Key("#text")
ValueKey == Key("_value_1")

\* the first piece dropped from every key, marked or not
new_key_always_strips(key) ==
    IF key = TextKey THEN ValueKey
    ELSE IF Len(key) > 0 THEN Tail(key)
    ELSE key

\* the renaming of one key (the if/elif/else of transform_xml_dict)
new_key(key) ==
    IF StartsWithAt(key) THEN Tail(key)
    ELSE IF key = TextKey THEN ValueKey
    ELSE key

RECURSIVE transform_xml_dict(_)
RECURSIVE transform_items(_, _)
transform_items(entries, new_dict) ==
    IF entries = <<>> THEN new_dict
    ELSE transform_items(Tail(entries),
            DictSet(new_dict, new_key(Head(entries).k),
                    transform_xml_dict(Head(entries).v)))

transform_xml_dict(d) ==
    IF d.kind = "dict" THEN Dict(transform_items(d.kids, <<>>))
    ELSE IF d.kind = "list"
    THEN Node("list", <<>>,
              [i \in 1..Len(d.kids) |->
                  Entry(<<>>, transform_xml_dict(d.kids[i].v))])
    ELSE d

\* v in [None, {}, []]
in_empties(v) ==
    \/ v.kind = "null"
    \/ (v.kind \in {"dict", "list"} /\ v.kids = <<>>)

RECURSIVE clean_empty(_)
clean_empty(d) ==
    IF d.kind \in {"dict", "list"}
    THEN LET kept == SelectSeq(d.kids, LAMBDA e : ~in_empties(e.v))
         IN Node(d.kind, <<>>,
                 [i \in 1..Len(kept) |->
                     Entry(kept[i].k, clean_empty(kept[i].v))])
    ELSE d

\* ------------------------------------------------------------ results
\* The outcome of a Python call: a returned value, or a raised exception with
\* the text of str(e).  sent lists the argument documents handed to the
\* remote Get_Workers operation while the call ran.
Ok(v) == [ok |-> TRUE, val |-> v, exc |-> <<>>, sent |-> <<>>]
Raise(m) == [ok |-> FALSE, val |-> None, exc |-> m, sent |-> <<>>]

\* ------------------------------------------------------------ config.py
Config == [WORKDAY_USERNAME |-> Str("your_username"),
           WORKDAY_PASSWORD |-> Str("your_password")]

\* ------------------------------------------------------------ request bodies
\* An XML element: name, attributes (sequence of [k, v] texts), character
\* data and child elements.
XmlEl(name, attrs, text, kids) ==
    [name |-> name, attrs |-> attrs, text |-> text, kids |-> kids]
NoXml == XmlEl("", <<>>, "", <<>>)

\* A request body: its content type ("json", "xml" or "none"), whether the
\* text is well formed, and the document it holds.
JsonBody(doc) == [ctype |-> "json", ok |-> TRUE, json |-> doc, xml |-> NoXml]
XmlBody(root) == [ctype |-> "xml", ok |-> TRUE, json |-> None, xml |-> root]
BadJsonBody == [ctype |-> "json", ok |-> FALSE, json |-> None, xml |-> NoXml]
BadXmlBody == [ctype |-> "xml", ok |-> FALSE, json |-> None, xml |-> NoXml]
NoTypeBody == [ctype |-> "none", ok |-> TRUE, json |-> EmptyDict, xml |-> NoXml]

\* xmltodict: a repeated child name collects its values in a list
push_data(item, key, data) ==
    IF \E i \in 1..Len(item) : item[i].k = key
    THEN LET i == IndexOf(item, key)
             old == item[i].v
         IN IF old.kind = "list"
            THEN [item EXCEPT ![i] =
                    Entry(key, Node("list", <<>>,
                                    Append(old.kids, Entry(<<>>, data))))]
            ELSE [item EXCEPT ![i] = Entry(key, List(<<old, data>>))]
    ELSE Append(item, Entry(key, data))

AttrEntries(attrs) ==
    [i \in 1..Len(attrs) |-> Entry(<<"@", attrs[i].k>>, Str(attrs[i].v))]

\* xmltodict: the value of one element: None when empty, its text when it has
\* only text, else a dict of '@' attributes, children and '#text'
RECURSIVE xml_value(_)
RECURSIVE xml_children(_, _)
xml_children(kids, item) ==
    IF kids = <<>> THEN item
    ELSE xml_children(Tail(kids),
            push_data(item, Key(Head(kids).name), xml_value(Head(kids))))

xml_value(el) ==
    LET item == xml_children(el.kids, AttrEntries(el.attrs))
    IN IF item = <<>>
       THEN (IF el.text = "" THEN None ELSE Str(el.text))
       ELSE IF el.text = "" THEN Dict(item)
       ELSE Dict(Append(item, Entry(TextKey, Str(el.text))))

\* xmltodict.parse(request.data)
xmltodict_parse(body) ==
    IF body.ok
    THEN Ok(Dict(<<Entry(Key(body.xml.name), xml_value(body.xml))>>))
    ELSE Raise(<<"not well-formed (invalid token)">>)

\* request.get_json(): a body that is not JSON text raises BadRequest; a
\* content type that is not JSON gives None or raises, by the Flask version
get_json(body, strict) ==
    IF body.ctype = "json"
    THEN (IF body.ok THEN Ok(body.json)
          ELSE Raise(<<"400 Bad Request: Failed to decode JSON object">>))
    ELSE IF strict THEN Raise(<<"415 Unsupported Media Type">>)
    ELSE Ok(None)

WrapperKey == Key("GetWorkersRequest")

parse_request_data_keeps_wrapper(body, strict) ==
    IF body.ctype = "xml"
    THEN LET parsed == xmltodict_parse(body)
         IN IF parsed.ok
            THEN Ok(transform_xml_dict(parsed.val))
            ELSE Raise(<<"Failed to parse XML: ">> \o parsed.exc)
    ELSE get_json(body, strict)

parse_request_data(body, strict) ==
    IF body.ctype = "xml"
    THEN LET parsed == xmltodict_parse(body)
         IN IF parsed.ok
            THEN LET data == IF HasKey(parsed.val, WrapperKey)
                             THEN Get(parsed.val, WrapperKey, None)
                             ELSE parsed.val
                 IN Ok(transform_xml_dict(data))
            ELSE Raise(<<"Failed to parse XML: ">> \o parsed.exc)
    ELSE get_json(body, strict)

\* ------------------------------------------------------------ soap_client.py
\* What the environment does with one request's SOAP traffic: whether
\* zeep.Client(...) can be built, and how the remote Get_Workers call ends (a
\* SOAP fault, another exception, or a serialized response).
BuildFails(m) ==
    [build |-> "fail", bmsg |-> m, call |-> "none", cmsg |-> <<>>, ret |-> None]
CallFaults(m) ==
    [build |-> "ok", bmsg |-> <<>>, call |-> "fault", cmsg |-> m, ret |-> None]
CallErrors(m) ==
    [build |-> "ok", bmsg |-> <<>>, call |-> "error", cmsg |-> m, ret |-> None]
CallReturns(r) ==
    [build |-> "ok", bmsg |-> <<>>, call |-> "return", cmsg |-> <<>>, ret |-> r]
NoRemote ==
    [build |-> "none", bmsg |-> <<>>, call |-> "none", cmsg |-> <<>>, ret |-> None]

Identity(username, password) ==
    Dict(<<Entry(Key("username"), username), Entry(Key("password"), password)>>)

\* WorkdaySOAPClient.__init__: the client is the credentials of its
\* UsernameToken
WorkdaySOAPClient(username, password, env) ==
    IF env.build = "ok" THEN Ok(Identity(username, password))
    ELSE [Raise(env.bmsg) EXCEPT !.val = Identity(username, password)]

AttributeErrorText(v) == <<"object has no attribute 'get'">>
TypeErrorText == <<"argument after ** must be a mapping">>
FaultPrefix == <<"SOAP Fault: ">>
WorkersPrefix == <<"Failed to get workers: ">>
WorkerPrefix == <<"Failed to get worker by reference: ">>

\* serialized_response.get("Response_Data", {}).get("Worker", []), wrapped in
\* a list when it is not one
response_workers(serialized_response) ==
    IF serialized_response.kind # "dict"
    THEN Raise(AttributeErrorText(serialized_response))
    ELSE LET data == Get(serialized_response, Key("Response_Data"), EmptyDict)
         IN IF data.kind # "dict" THEN Raise(AttributeErrorText(data))
            ELSE LET workers == Get(data, Key("Worker"), EmptyList)
                 IN Ok(IF workers.kind # "list"
                       THEN List(<<workers>>) ELSE workers)

\* self.client.service.Get_Workers(**params, ...) and serialize_object: the
\* text of the exception is prefixed as the except clauses of the caller do
Get_Workers(params, env, prefix) ==
    IF params.kind # "dict" THEN Raise(prefix \o TypeErrorText)
    ELSE LET r == CASE env.call = "fault" -> Raise(FaultPrefix \o env.cmsg)
                    [] env.call = "error" -> Raise(prefix \o env.cmsg)
                    [] OTHER ->
                        LET w == response_workers(env.ret)
                        IN IF w.ok THEN w ELSE Raise(prefix \o w.exc)
         IN [r EXCEPT !.sent = <<params>>]

\* WorkdaySOAPClient.get_workers
WorkdaySOAPClient_get_workers(filters, env) ==
    Get_Workers(filters, env, WorkersPrefix)

request_params(worker_id_value) ==
    Dict(<<Entry(Key("Request_References"),
       Dict(<<Entry(Key("Worker_Reference"),
          List(<<Dict(<<Entry(Key("ID"),
             List(<<Dict(<<Entry(ValueKey, Str(worker_id_value)),
                           Entry(Key("type"), Str("Employee_ID"))>>)>>))>>)>>))>>))>>)

\* WorkdaySOAPClient.get_worker_by_reference
get_worker_by_reference(worker_id_value, env) ==
    LET r == Get_Workers(request_params(worker_id_value), env, WorkerPrefix)
    IN IF r.ok
       THEN [r EXCEPT !.val = IF r.val.kids # <<>>
                               THEN r.val.kids[1].v ELSE EmptyDict]
       ELSE r

\* ------------------------------------------------------------ app.py routes
Resp(status, body) == [status |-> status, body |-> body]
\* What a handler did: its response, the SOAP traffic it caused (client
\* constructions and Get_Workers calls, with the credentials used), and the
\* token it issued (None when none)
Out(resp, calls, token) == [resp |-> resp, calls |-> calls, token |-> token]
ClientCall(client) ==
    [op |-> "Client", cred |-> client.val, args |-> None]
RemoteCalls(client, sent) ==
    [i \in 1..Len(sent) |->
        [op |-> "Get_Workers", cred |-> client.val, args |-> sent[i]]]

\* flask_jwt_extended, a black box: the token carries the identity claim
create_access_token(identity) == Node("jwt", <<>>, identity.kids)
get_jwt_identity(token) == Dict(token.kids)

\* an exception no handler catches: errorhandler(500), or with DEBUG set the
\* server's own 500 page
internal_error(debug) ==
    Resp(500, IF debug THEN Str("<traceback page>")
              ELSE Dict(<<Entry(Key("error"), Str("Internal Server Error"))>>))

\* @jwt_required() without a valid token
unauthorized ==
    Out(Resp(401, Dict(<<Entry(Key("msg"), Str("Missing Authorization Header"))>>)),
        <<>>, None)

index ==
    Out(Resp(200, Dict(<<Entry(Key("message"),
                           Str("Welcome to the Workday REST API Wrapper."))>>)),
        <<>>, None)

\* the construction moved out of the try block
invalid_credentials_uncaught(exc) ==
    Resp(500, Dict(<<Entry(Key("error"), Str("Internal Server Error"))>>))

\* except Exception as e: ... 401
invalid_credentials(exc) ==
    Resp(401, Dict(<<Entry(Key("msg"), Str("Invalid Workday credentials")),
                     Entry(Key("error"), Text(exc))>>))

login(body, env, strict, debug) ==
    LET parsed == parse_request_data(body, strict)
    IN IF ~parsed.ok
       THEN Out(Resp(400, Dict(<<Entry(Key("msg"), Text(parsed.exc))>>)),
                <<>>, None)
       ELSE IF parsed.val.kind # "dict"
       THEN Out(internal_error(debug), <<>>, None)
       ELSE
         LET username == Get(parsed.val, Key("username"), None)
             password == Get(parsed.val, Key("password"), None)
         IN IF ~Truthy(username) \/ ~Truthy(password)
            THEN Out(Resp(400, Dict(<<Entry(Key("msg"),
                            Str("Username and password required"))>>)),
                     <<>>, None)
            ELSE
              LET temp_client == WorkdaySOAPClient(username, password, env)
                  probe == IF temp_client.ok
                           THEN WorkdaySOAPClient_get_workers(EmptyDict, env)
                           ELSE temp_client
                  calls == <<ClientCall(temp_client)>>
                           \o RemoteCalls(temp_client, probe.sent)
                  identity == Identity(username, password)
              IN IF ~probe.ok
                 THEN Out(invalid_credentials(probe.exc), calls, None)
                 ELSE Out(Resp(200, Dict(<<Entry(Key("access_token"),
                                 create_access_token(identity))>>)),
                          calls, create_access_token(identity))

\* the module-level credentials used in place of the token's
get_soap_client_from_config(token, env) ==
    WorkdaySOAPClient(Config.WORKDAY_USERNAME, Config.WORKDAY_PASSWORD, env)

get_soap_client_from_token(token, env) ==
    LET identity == get_jwt_identity(token)
    IN WorkdaySOAPClient(Get(identity, Key("username"), None),
                         Get(identity, Key("password"), None), env)

health_check(token) ==
    Out(Resp(200, Dict(<<Entry(Key("status"), Str("OK")),
                         Entry(Key("message"),
                               Str("Workday REST wrapper is running")),
                         Entry(Key("credentials_used"),
                               get_jwt_identity(token))>>)),
        <<>>, None)

\* the message replaced by a fixed text
ErrorBodyGeneric(exc) ==
    Dict(<<Entry(Key("error"), Str("Internal Server Error"))>>)

\* jsonify({"error": str(e)})
ErrorBody(exc) == Dict(<<Entry(Key("error"), Text(exc))>>)

get_workers(body, token, env, strict) ==
    LET parsed == parse_request_data(body, strict)
    IN IF ~parsed.ok
       THEN Out(Resp(400, ErrorBody(parsed.exc)), <<>>, None)
       ELSE
         LET filters == clean_empty(IF Truthy(parsed.val)
                                    THEN parsed.val ELSE EmptyDict)
             soap_client == get_soap_client_from_token(token, env)
             workers_data == IF soap_client.ok
                             THEN WorkdaySOAPClient_get_workers(filters, env)
                             ELSE soap_client
             calls == <<ClientCall(soap_client)>>
                      \o RemoteCalls(soap_client, workers_data.sent)
         IN IF workers_data.ok
            THEN Out(Resp(200, Dict(<<Entry(Key("workers"),
                                            workers_data.val)>>)),
                     calls, None)
            ELSE Out(Resp(500, ErrorBody(workers_data.exc)), calls, None)

get_worker(worker_id, token, env) ==
    LET soap_client == get_soap_client_from_token(token, env)
        worker_data == IF soap_client.ok
                       THEN get_worker_by_reference(worker_id, env)
                       ELSE soap_client
        calls == <<ClientCall(soap_client)>>
                 \o RemoteCalls(soap_client, worker_data.sent)
    IN IF worker_data.ok
       THEN Out(Resp(200, Dict(<<Entry(Key("worker"), worker_data.val)>>)),
                calls, None)
       ELSE Out(Resp(500, ErrorBody(worker_data.exc)), calls, None)

\* ------------------------------------------------------------ state
VARIABLES
    tree,      \* the value handed to the helper under study
    tpc,       \* "build" while the value is assembled, then the helper applied
    pruned,    \* clean_empty(tree)
    normal,    \* transform_xml_dict(tree)
    normal2,   \* transform_xml_dict(normal)
    req,       \* the request handled last
    resp,      \* its response
    calls,     \* the SOAP traffic it caused
    remote,    \* what the environment did with that traffic
    issued,    \* the tokens issued so far (held by clients)
    probed     \* the credentials a login probe has succeeded with so far

tvars == <<tree, tpc, pruned, normal, normal2>>
hvars == <<req, resp, calls, remote, issued, probed>>
vars == <<tree, tpc, pruned, normal, normal2,
          req, resp, calls, remote, issued, probed>>

NoBody == [ctype |-> "none", ok |-> TRUE, json |-> None, xml |-> NoXml]
NoRequest ==
    [route |-> "none", body |-> NoBody, token |-> None, worker_id |-> "",
     strict |-> FALSE]

HttpIdle ==
    /\ req = NoRequest
    /\ resp = Resp(0, None)
    /\ calls = <<>>
    /\ remote = NoRemote
    /\ issued = {}
    /\ probed = {}

TreeIdle ==
    /\ tree = None
    /\ tpc = "idle"
    /\ pruned = None
    /\ normal = None
    /\ normal2 = None

\* ------------------------------------------------------------ helper inputs
RECURSIVE Depth(_)
RECURSIVE MaxKidDepth(_)
MaxKidDepth(entries) ==
    IF entries = <<>> THEN 0
    ELSE LET h == Depth(Head(entries).v)
             t == MaxKidDepth(Tail(entries))
         IN IF h > t THEN h ELSE t
Depth(n) == IF n.kind \in {"dict", "list"} /\ n.kids # <<>>
            THEN 1 + MaxKidDepth(n.kids) ELSE 0

TreeKeys == { <<"a">>, <<"@", "a">>, <<"@", "@", "a">>, TextKey, <<"@", "#text">> }
BaseLeaves == { None, Str("x"), EmptyDict, EmptyList }
SiblingKeys == { <<"a">>, <<"@", "a">> }
SiblingLeaves == { None }

InitTree ==
    /\ tree \in BaseLeaves
    /\ tpc = "build"
    /\ pruned = None
    /\ normal = None
    /\ normal2 = None
    /\ HttpIdle

WrapDict(k) ==
    /\ tpc = "build"
    /\ Depth(tree) < MaxDepth
    /\ tree' = Dict(<<Entry(k, tree)>>)
    /\ UNCHANGED <<tpc, pruned, normal, normal2, hvars>>

WrapList ==
    /\ tpc = "build"
    /\ Depth(tree) < MaxDepth
    /\ tree' = List(<<tree>>)
    /\ UNCHANGED <<tpc, pruned, normal, normal2, hvars>>

AddEntry(k, leaf) ==
    /\ tpc = "build"
    /\ tree.kind = "dict"
    /\ tree.kids # <<>>
    /\ Len(tree.kids) < MaxWidth
    /\ ~HasKey(tree, k)
    /\ tree' = Dict(Append(tree.kids, Entry(k, leaf)))
    /\ UNCHANGED <<tpc, pruned, normal, normal2, hvars>>

AppendItem(leaf) ==
    /\ tpc = "build"
    /\ tree.kind = "list"
    /\ tree.kids # <<>>
    /\ Len(tree.kids) < MaxWidth
    /\ tree' = Node("list", <<>>, Append(tree.kids, Entry(<<>>, leaf)))
    /\ UNCHANGED <<tpc, pruned, normal, normal2, hvars>>

Prune ==
    /\ tpc = "build"
    /\ pruned' = clean_empty(tree)
    /\ tpc' = "pruned"
    /\ UNCHANGED <<tree, normal, normal2, hvars>>

Normalize ==
    /\ tpc = "build"
    /\ normal' = transform_xml_dict(tree)
    /\ normal2' = transform_xml_dict(normal')
    /\ tpc' = "normalized"
    /\ UNCHANGED <<tree, pruned, hvars>>

NextTree ==
    \/ \E k \in TreeKeys : WrapDict(k)
    \/ WrapList
    \/ \E k \in SiblingKeys, leaf \in SiblingLeaves : AddEntry(k, leaf)
    \/ \E leaf \in SiblingLeaves : AppendItem(leaf)
    \/ Prune
    \/ Normalize

SpecTree == InitTree /\ [][NextTree]_vars


\* ------------------------------------------------------------ requests
Alice == Str("alice")
Bob == Str("bob")
Leaf(name, text) == XmlEl(name, <<>>, text, <<>>)
Elem(name, kids) == XmlEl(name, <<>>, "", kids)

CredentialsJson(u, p) ==
    JsonBody(Dict(<<Entry(Key("username"), u), Entry(Key("password"), p)>>))

LoginBodies ==
    { CredentialsJson(Alice, Str("pw1")),
      CredentialsJson(Bob, Str("pw2")),
      CredentialsJson(Str(""), Str("pw1")),
      JsonBody(Dict(<<Entry(Key("username"), Alice)>>)),
      JsonBody(EmptyDict),
      JsonBody(None),
      JsonBody(List(<<Alice, Str("pw1")>>)),
      BadJsonBody,
      BadXmlBody,
      NoTypeBody,
      XmlBody(Elem("GetWorkersRequest",
                   <<Leaf("username", "alice"), Leaf("password", "pw1")>>)),
      XmlBody(Elem("login",
                   <<Leaf("username", "bob"), Leaf("password", "pw2")>>)),
      XmlBody(Elem("GetWorkersRequest", <<>>)) }

\* {"Request_Criteria": {"Exclude_Inactive_Workers": leaf}}
CriteriaFilter(leaf) ==
    Dict(<<Entry(Key("Request_Criteria"),
                 Dict(<<Entry(Key("Exclude_Inactive_Workers"), leaf)>>))>>)

\* <GetWorkersRequest><Request_Criteria><Exclude_Inactive_Workers>true
\* </Exclude_Inactive_Workers></Request_Criteria></GetWorkersRequest>
ExampleXml ==
    XmlBody(Elem("GetWorkersRequest",
       <<Elem("Request_Criteria",
              <<Leaf("Exclude_Inactive_Workers", "true")>>)>>))
ExampleJson == JsonBody(CriteriaFilter(Bool("true")))

\* <GetWorkersRequest><Request_References><Worker_Reference>
\* <ID type="Employee_ID">21001</ID><ID type="WID">3aa5</ID>
\* </Worker_Reference></Request_References><Response_Filter/>
\* </GetWorkersRequest>
ReferenceXml ==
    XmlBody(Elem("GetWorkersRequest",
       <<Elem("Request_References",
           <<Elem("Worker_Reference",
               <<XmlEl("ID", <<[k |-> "type", v |-> "Employee_ID"]>>,
                       "21001", <<>>),
                 XmlEl("ID", <<[k |-> "type", v |-> "WID"]>>,
                       "3aa5", <<>>)>>)>>),
         Elem("Response_Filter", <<>>)>>))

FilterBodies ==
    { JsonBody(EmptyDict),
      ExampleJson,
      JsonBody(CriteriaFilter(None)),
      JsonBody(None),
      JsonBody(List(<<Str("x")>>)),
      BadJsonBody,
      BadXmlBody,
      NoTypeBody,
      ExampleXml,
      ReferenceXml,
      XmlBody(Elem("GetWorkersRequest", <<>>)),
      XmlBody(Elem("Filters",
         <<Elem("Request_Criteria",
                <<Leaf("Exclude_Inactive_Workers", "true")>>)>>)) }

WorkerIds == { "21001", "99999" }

Worker(id) ==
    Dict(<<Entry(Key("Worker_Data"),
                 Dict(<<Entry(Key("Worker_ID"), Str(id))>>))>>)
ResponseData(data) == Dict(<<Entry(Key("Response_Data"), data)>>)
WorkerEntry(workers) == Dict(<<Entry(Key("Worker"), workers)>>)

\* serialized responses of a Get_Workers call that did not fail
Returns ==
    { EmptyDict,
      ResponseData(None),
      ResponseData(EmptyDict),
      ResponseData(WorkerEntry(None)),
      ResponseData(WorkerEntry(EmptyList)),
      ResponseData(WorkerEntry(Worker("21001"))),
      ResponseData(WorkerEntry(List(<<Worker("21001")>>))),
      ResponseData(WorkerEntry(List(<<Worker("21001"), Worker("21002")>>))) }

\* exception texts the libraries raise; a text may itself begin with any
\* words, such as those of a server's error page
Msgs == { <<"boom">>, WorkersPrefix \o <<"boom">> }

Envs ==
    { BuildFails(m) : m \in Msgs } \cup { CallFaults(m) : m \in Msgs }
    \cup { CallErrors(m) : m \in Msgs } \cup { CallReturns(r) : r \in Returns }

StrictChoices(body) == IF body.ctype = "none" THEN BOOLEAN ELSE {FALSE}

\* a login probe that succeeded: the client was built and get_workers({})
\* returned
ProbeSucceeded(out, env) ==
    /\ Len(out.calls) = 2
    /\ env.build = "ok"
    /\ env.call = "return"
    /\ response_workers(env.ret).ok

Handled(route, body, token, worker_id, strict, env, out) ==
    /\ req' = [route |-> route, body |-> body, token |-> token,
               worker_id |-> worker_id, strict |-> strict]
    /\ resp' = out.resp
    /\ calls' = out.calls
    /\ remote' = IF out.calls = <<>> THEN NoRemote ELSE env
    /\ issued' = IF out.token = None THEN issued ELSE issued \cup {out.token}
    /\ probed' = IF route = "login" /\ ProbeSucceeded(out, env)
                 THEN probed \cup {out.calls[1].cred} ELSE probed
    /\ UNCHANGED tvars

Init == TreeIdle /\ HttpIdle

Index ==
    Handled("index", NoBody, None, "", FALSE, NoRemote, index)

Login ==
    \E body \in LoginBodies, env \in Envs, debug \in BOOLEAN :
      \E strict \in StrictChoices(body) :
        Handled("login", body, None, "", strict, env,
                login(body, env, strict, debug))

HealthCheck ==
    \E token \in issued \cup {None} :
        Handled("health", NoBody, token, "", FALSE, NoRemote,
                IF token = None THEN unauthorized ELSE health_check(token))

GetWorkers ==
    \E body \in FilterBodies, env \in Envs, token \in issued \cup {None} :
      \E strict \in StrictChoices(body) :
        Handled("get_workers", body, token, "", strict, env,
                IF token = None THEN unauthorized
                ELSE get_workers(body, token, env, strict))

GetWorker ==
    \E worker_id \in WorkerIds, env \in Envs, token \in issued \cup {None} :
        Handled("get_worker", NoBody, token, worker_id, FALSE, env,
                IF token = None THEN unauthorized
                ELSE get_worker(worker_id, token, env))

Next == Index \/ Login \/ HealthCheck \/ GetWorkers \/ GetWorker

Spec == Init /\ [][Next]_vars

\* ------------------------------------------------------------ claims
IsEmptyValue(v) ==
    v = None \/ v = EmptyDict \/ v = EmptyList

RECURSIVE NoEmptyInside(_)
NoEmptyInside(n) ==
    \A i \in 1..Len(n.kids) :
        ~IsEmptyValue(n.kids[i].v) /\ NoEmptyInside(n.kids[i].v)

\* C4: the output of clean_empty holds, at every depth, no dict entry and no
\* list element whose value is None, {} or [].
C4_PrunedHasNoEmpty == tpc = "pruned" => NoEmptyInside(pruned)

\* C5 as stated: transform_xml_dict(transform_xml_dict(x)) ==
\* transform_xml_dict(x) for every tree with string keys.
C5_IdempotentAllTrees == tpc = "normalized" => PyEq(normal2, normal)

\* a key whose renaming is itself renamed again: '@' followed by a key that
\* starts with '@' or is '#text'
Renamable(key) == StartsWithAt(key) \/ key = TextKey
DoublyMarked(key) == StartsWithAt(key) /\ Renamable(Tail(key))

RECURSIVE HasDoublyMarkedKey(_)
HasDoublyMarkedKey(n) ==
    \E i \in 1..Len(n.kids) :
        \/ (n.kind = "dict" /\ DoublyMarked(n.kids[i].k))
        \/ HasDoublyMarkedKey(n.kids[i].v)

\* C5 amended: transform_xml_dict is idempotent on every tree none of whose
\* keys is '@' followed by a key that is itself renamed (one beginning with
\* '@', or '#text'); in particular on every tree parsed from XML.
C5_IdempotentSinglyMarked ==
    (tpc = "normalized" /\ ~HasDoublyMarkedKey(tree)) => PyEq(normal2, normal)

RECURSIVE HasRenamableKey(_)
HasRenamableKey(n) ==
    \E i \in 1..Len(n.kids) :
        \/ (n.kind = "dict" /\ Renamable(n.kids[i].k))
        \/ HasRenamableKey(n.kids[i].v)

C5_Witness ==
    /\ tpc = "normalized"
    /\ ~HasDoublyMarkedKey(tree)
    /\ HasRenamableKey(tree)
    /\ Depth(tree) = 2
    /\ ~PyEq(normal, tree)

\* ---- the HTTP claims
Parsed == parse_request_data(req.body, req.strict)
Username == Get(Parsed.val, Key("username"), None)
Password == Get(Parsed.val, Key("password"), None)

\* the request data supplies a non-empty username and a non-empty password
SuppliesCredentials ==
    /\ Parsed.ok
    /\ Parsed.val.kind = "dict"
    /\ Truthy(Username)
    /\ Truthy(Password)

RemoteInvoked == Len(calls) = 2 /\ calls[2].op = "Get_Workers"
RemoteReturned == RemoteInvoked /\ remote.call = "return"
RemoteFailed == RemoteInvoked /\ remote.call \in {"fault", "error"}
BuildFailed == calls # <<>> /\ remote.build = "fail"

\* the login probe, temp_client.get_workers({}), returned
ProbeReturned ==
    /\ RemoteReturned
    /\ remote.ret.kind = "dict"
    /\ Get(remote.ret, Key("Response_Data"), EmptyDict).kind = "dict"

\* C1: a POST /login that supplies a non-empty username and password answers
\* 200 with an access token when the session is built and the probe
\* returns, and 401 (never 500) when either step fails.
C1_LoginAnswers200Or401 ==
    (req.route = "login" /\ SuppliesCredentials) =>
        IF ProbeReturned
        THEN /\ resp.status = 200
             /\ resp.body.kind = "dict"
             /\ Get(resp.body, Key("access_token"), None).kind = "jwt"
        ELSE /\ resp.status = 401
             /\ ~HasKey(resp.body, Key("access_token"))

C1_Witness ==
    /\ req.route = "login"
    /\ SuppliesCredentials
    /\ BuildFailed
    /\ resp.status = 401

AbsentOrNull(d, k) == ~HasKey(d, k) \/ Get(d, k, None) = None

\* the remote returned zero workers
ZeroWorkers(ret) ==
    \/ AbsentOrNull(ret, Key("Response_Data"))
    \/ AbsentOrNull(Get(ret, Key("Response_Data"), None), Key("Worker"))

\* the Worker entry of a response that has one
WorkerOf(ret) ==
    Get(Get(ret, Key("Response_Data"), None), Key("Worker"), None)

\* Response_Data.Worker as a sequence: [] for none, [w] for one mapping
WorkerSequence(ret) ==
    IF ZeroWorkers(ret) THEN EmptyList
    ELSE IF WorkerOf(ret).kind = "list" THEN WorkerOf(ret)
    ELSE List(<<WorkerOf(ret)>>)

\* C2: when the remote call did not fail, POST /get_workers answers 200 with
\* {"workers": s}, s the sequence of returned workers: [] for zero workers,
\* a one-element sequence for a single mapping; never null, a sequence
\* holding null, or an error.
C2_ListWorkersIsSequence ==
    (req.route = "get_workers" /\ RemoteReturned) =>
        /\ resp.status = 200
        /\ resp.body = Dict(<<Entry(Key("workers"), WorkerSequence(remote.ret))>>)

\* C3: when the remote call did not fail, GET /get_worker/<id> answers 200
\* with the first returned worker, and with {"worker": {}} for zero matches.
C3_GetWorkerFirstOrEmpty ==
    (req.route = "get_worker" /\ RemoteReturned) =>
        /\ resp.status = 200
        /\ resp.body = Dict(<<Entry(Key("worker"),
                IF WorkerSequence(remote.ret) = EmptyList THEN EmptyDict
                ELSE WorkerSequence(remote.ret).kids[1].v)>>)

RECURSIVE AllLeavesStr(_)
AllLeavesStr(n) ==
    IF n.kind \in {"dict", "list"}
    THEN \A i \in 1..Len(n.kids) : AllLeavesStr(n.kids[i].v)
    ELSE n.kind = "str"

\* C6 as stated: the example XML body sends Get_Workers the document of the
\* JSON body {"Request_Criteria": {"Exclude_Inactive_Workers": true}}, with
\* the boolean leaf.
C6_XmlEqualsJsonDocument ==
    (req.route = "get_workers" /\ req.body = ExampleXml /\ RemoteInvoked) =>
        PyEq(calls[2].args, CriteriaFilter(Bool("true")))

\* C6 amended: an XML body under a GetWorkersRequest root sends Get_Workers
\* the unwrapped, normalized and pruned document whose leaves are all the
\* strings of the XML text; the example sends
\* {"Request_Criteria": {"Exclude_Inactive_Workers": "true"}}.
C6_XmlSendsStringLeaves ==
    (/\ req.route = "get_workers"
     /\ req.body.ctype = "xml"
     /\ req.body.xml.name = "GetWorkersRequest"
     /\ RemoteInvoked) =>
        /\ AllLeavesStr(calls[2].args)
        /\ ~HasKey(calls[2].args, WrapperKey)
        /\ req.body = ExampleXml =>
              calls[2].args = CriteriaFilter(Str("true"))

C6_Witness ==
    /\ req.route = "get_workers"
    /\ req.body = ExampleXml
    /\ RemoteReturned
    /\ resp.status = 200

\* C7: a login or get_workers request whose body does not parse, and a login
\* whose parsed body supplies no username and password, whatever its shape,
\* is answered 400 and causes no remote call.
C7_MalformedInputIs400 ==
    (\/ (req.route = "login" /\ ~SuppliesCredentials)
     \/ (req.route = "get_workers" /\ req.token # None /\ ~Parsed.ok)) =>
        /\ resp.status = 400
        /\ calls = <<>>

\* the response the handler of the last request gives under env
Rerun(env) ==
    CASE req.route = "login" -> login(req.body, env, req.strict, FALSE).resp
      [] req.route = "get_workers" ->
            get_workers(req.body, req.token, env, req.strict).resp
      [] OTHER -> get_worker(req.worker_id, req.token, env).resp

FailedCalls == { env \in Envs : env.call \in {"fault", "error"} }

\* C8: in every handler that builds a session, the response to a failed
\* construction differs from every response the same request gets when the
\* session is built and the Get_Workers call fails.
C8_ConstructionFailureDistinct ==
    BuildFailed => \A env \in FailedCalls : Rerun(env) # resp

EndsWith(text, tail) ==
    /\ Len(text) >= Len(tail)
    /\ SubSeq(text, Len(text) - Len(tail) + 1, Len(text)) = tail

\* C9: with a valid token, a failed Get_Workers call ends the request with
\* 500 and a JSON error body carrying the original message and no worker
\* payload; Get_Workers is invoked at most once per request.
C9_RemoteFailureIs500 ==
    /\ Cardinality({i \in 1..Len(calls) : calls[i].op = "Get_Workers"}) <= 1
    /\ (req.route \in {"get_workers", "get_worker"} /\ RemoteFailed) =>
          /\ resp.status = 500
          /\ resp.body.kind = "dict"
          /\ Len(resp.body.kids) = 1
          /\ resp.body.kids[1].k = Key("error")
          /\ resp.body.kids[1].v.kind = "str"
          /\ EndsWith(resp.body.kids[1].v.val, remote.cmsg)

C9_Witness ==
    /\ req.route = "get_worker"
    /\ RemoteFailed
    /\ remote.call = "fault"
    /\ resp.status = 500

\* C10: a token is issued only by a login whose probe succeeded with the
\* submitted pair and carries exactly that pair; every session of a
\* protected request is built with the credentials of the token presented
\* with it, whatever other tokens were issued before; no other route
\* hands out a token.
C10_TokenCredentialsOnly ==
    /\ \A t \in issued : get_jwt_identity(t) \in probed
    /\ (req.route = "login" /\ resp.status = 200) =>
          /\ ProbeReturned
          /\ Get(resp.body, Key("access_token"), None)
                = create_access_token(Identity(Username, Password))
          /\ Get(resp.body, Key("access_token"), None) \in issued
          /\ \A i \in 1..Len(calls) :
                calls[i].cred = Identity(Username, Password)
    /\ (req.route \in {"get_workers", "get_worker"}) =>
          \A i \in 1..Len(calls) : calls[i].cred = get_jwt_identity(req.token)
    /\ (req.route # "login" \/ resp.status # 200) =>
          ~HasKey(resp.body, Key("access_token"))

C10_Witness ==
    /\ Cardinality(issued) = 2
    /\ req.route = "get_worker"
    /\ Len(calls) = 2
    /\ calls[1].cred = Identity(Bob, Str("pw2"))
    /\ resp.status = 200
====
